---- MODULE Spec2Model ----
(***************************************************************************)
(* Colour contrast checker widget (src/widget-src/code.tsx).               *)
(*                                                                         *)
(* Two specifications share the variables below:                           *)
(*   Spec      the widget: synced state, the text-edit and property-menu   *)
(*             handlers, and the ratio-mirror effect run after a render;   *)
(*   CalcSpec  the colour-math functions applied to inputs drawn from      *)
(*             bounded sets.                                               *)
(*                                                                         *)
(* Representation.  A JavaScript string is a sequence of one-character     *)
(* strings.  A JavaScript number is an integer: a channel is itself, a     *)
(* luminance is counted in units of 10^-8, a contrast ratio in units of    *)
(* 0.01 (the grid Math.round(ratio*100)/100 returns), and NaN is a value   *)
(* of its own which no arithmetic of the model produces otherwise.  A call *)
(* either returns a value or throws an Error with a message.               *)
(***************************************************************************)
EXTENDS Integers, Sequences, FiniteSets, TLC

VARIABLES
    darkMode, showLabels, horizontalLayout,
    foreground, background, foregroundLabel, backgroundLabel, ratio,
    notifyCount, renderPending, effectRan, setRatioCalls,
    op, argA, argB, result, phase

widgetVars == <<darkMode, showLabels, horizontalLayout, foreground, background,
                foregroundLabel, backgroundLabel, ratio,
                notifyCount, renderPending, effectRan, setRatioCalls>>
calcVars == <<op, argA, argB, result, phase>>
vars == <<darkMode, showLabels, horizontalLayout, foreground, background,
          foregroundLabel, backgroundLabel, ratio,
          notifyCount, renderPending, effectRan, setRatioCalls,
          op, argA, argB, result, phase>>

---------------------------------------------------------------------------
(* Bounds of the model. *)

\* longest string handed to the string functions in CalcSpec
MaxLen == 7
\* longest array handed to calculateRelativeLuminance in CalcSpec
MaxArrayLen == 4
\* notifications the model counts before it stops taking rejected edits
MaxNotify == 1
\* setRatio calls counted since the last colour change (the count saturates)
MaxSetRatioCalls == 2

---------------------------------------------------------------------------
(* JavaScript values. *)

\* parseInt's "no digits" result; NaN propagates through arithmetic and
\* every comparison with it is false
NaN == -1000000

IsNaN(x) == x = NaN

\* a < b on numbers
Less(a, b) == ~IsNaN(a) /\ ~IsNaN(b) /\ a < b

\* a <= b on numbers
LessEq(a, b) == ~IsNaN(a) /\ ~IsNaN(b) /\ a <= b

\* a !== b on numbers
StrictNotEqual(a, b) == IsNaN(a) \/ IsNaN(b) \/ a # b

Return(v) == [threw |-> FALSE, value |-> v]
Throw(msg) == [threw |-> TRUE, error |-> msg]

InvalidHexMessage == "Invalid HEX input"
InvalidTypeMessage == "Input value must be a string"
NotifyMessage == "Please enter a valid HEX value"

\* the two shapes of ColorContrastRatioCalculatorInput, and a value of
\* neither shape (TypeScript's types are erased at run time)
Str(chars) == [kind |-> "string", val |-> chars]
Arr(elems) == [kind |-> "array", val |-> elems]
NotStringNorArray == [kind |-> "number", val |-> <<>>]

UpperCase == <<"A", "B", "C", "D", "E", "F", "G", "H", "I", "J", "K", "L", "M",
               "N", "O", "P", "Q", "R", "S", "T", "U", "V", "W", "X", "Y", "Z">>
LowerCase == <<"a", "b", "c", "d", "e", "f", "g", "h", "i", "j", "k", "l", "m",
               "n", "o", "p", "q", "r", "s", "t", "u", "v", "w", "x", "y", "z">>

ToLowerChar(c) ==
    IF \E i \in 1..26 : UpperCase[i] = c
    THEN LowerCase[CHOOSE i \in 1..26 : UpperCase[i] = c]
    ELSE c

\* String.prototype.toLowerCase
toLowerCase(s) == [i \in 1..Len(s) |-> ToLowerChar(s[i])]

\* s.replace("#", ""): a string pattern replaces its first occurrence,
\* wherever it is
replaceHash(s) ==
    IF \E i \in 1..Len(s) : s[i] = "#"
    THEN LET i == CHOOSE k \in 1..Len(s) :
                      s[k] = "#" /\ \A j \in 1..(k - 1) : s[j] # "#"
         IN  SubSeq(s, 1, i - 1) \o SubSeq(s, i + 1, Len(s))
    ELSE s

RECURSIVE trimStart(_)
trimStart(s) == IF s # <<>> /\ Head(s) = " " THEN trimStart(Tail(s)) ELSE s

RECURSIVE trimEnd(_)
trimEnd(s) ==
    IF s # <<>> /\ s[Len(s)] = " " THEN trimEnd(SubSeq(s, 1, Len(s) - 1)) ELSE s

\* String.prototype.trim
trim(s) == trimEnd(trimStart(s))

\* input.replace("#", "").toLowerCase()
sanitise(input) == toLowerCase(replaceHash(input))

RegexClass == {"0", "1", "2", "3", "4", "5", "6", "7", "8", "9",
               "a", "b", "c", "d", "e", "f"}

\* new RegExp(/[0-9a-f]{6}/).test(s): the pattern has no anchors, so it
\* matches six consecutive class characters anywhere in s
regexTest(s) ==
    \E i \in 1..(Len(s) - 5) : \A j \in i..(i + 5) : s[j] \in RegexClass

HexDigits == <<"0", "1", "2", "3", "4", "5", "6", "7", "8", "9",
               "a", "b", "c", "d", "e", "f">>

IsHexDigit(c) == \E i \in 1..16 : HexDigits[i] = ToLowerChar(c)

DigitValue(c) == (CHOOSE i \in 1..16 : HexDigits[i] = ToLowerChar(c)) - 1

RECURSIVE DigitPrefixValue(_, _)
DigitPrefixValue(s, acc) ==
    IF s # <<>> /\ IsHexDigit(Head(s))
    THEN DigitPrefixValue(Tail(s), 16 * acc + DigitValue(Head(s)))
    ELSE acc

\* parseInt(s, 16): leading white space is skipped, then a sign, then a 0x
\* prefix; the longest prefix of hex digits is the value and what follows
\* it is ignored; no digit at all is NaN
parseInt16(s) ==
    LET t == trimStart(s)
        negative == t # <<>> /\ Head(t) = "-"
        u == IF t # <<>> /\ Head(t) \in {"-", "+"} THEN Tail(t) ELSE t
        w == IF Len(u) >= 2 /\ u[1] = "0" /\ u[2] \in {"x", "X"}
             THEN SubSeq(u, 3, Len(u)) ELSE u
    IN  IF w = <<>> \/ ~IsHexDigit(Head(w)) THEN NaN
        ELSE IF negative THEN 0 - DigitPrefixValue(w, 0)
        ELSE DigitPrefixValue(w, 0)

---------------------------------------------------------------------------
(* The colour math. *)

\* validateHexString (the regex is tested only when the length is not 6)
validateHexString(input) == Len(input) = 6 \/ regexTest(input)

\* convertHexToRgb
convertHexToRgb(input) ==
    LET sanitisedHex == sanitise(input)
        chars == sanitisedHex
    IN  IF validateHexString(sanitisedHex)
        THEN Return(<<parseInt16(<<chars[1], chars[2]>>),
                      parseInt16(<<chars[3], chars[4]>>),
                      parseInt16(<<chars[5], chars[6]>>)>>)
        ELSE Throw(InvalidHexMessage)

\* ((relativeRgb + 0.055) / 1.055) ** 2.4 for rgbValue = 11 .. 255, in units
\* of 10^-8, rounded to the nearest unit
GammaTable ==
  <<
     334654, 367651, 402472, 439144, 477695, 518152,
     560539, 604883, 651209, 699541, 749903, 802319,
     856813, 913406, 972122, 1032982, 1096009, 1161225,
     1228649, 1298303, 1370208, 1444384, 1520851, 1599629,
     1680738, 1764195, 1850022, 1938236, 2028856, 2121901,
     2217388, 2315337, 2415763, 2518686, 2624122, 2732089,
     2842604, 2955683, 3071344, 3189603, 3310477, 3433981,
     3560131, 3688945, 3820437, 3954624, 4091520, 4231141,
     4373503, 4518620, 4666509, 4817182, 4970657, 5126946,
     5286065, 5448028, 5612849, 5780543, 5951124, 6124605,
     6301002, 6480327, 6662594, 6847817, 7036010, 7227185,
     7421357, 7618538, 7818742, 8021982, 8228271, 8437621,
     8650046, 8865559, 9084171, 9305896, 9530747, 9758735,
     9989873, 10224173, 10461648, 10702310, 10946171, 11193243,
     11443537, 11697067, 11953843, 12213877, 12477182, 12743768,
     13013648, 13286832, 13563333, 13843162, 14126329, 14412847,
     14702727, 14995979, 15292615, 15592646, 15896084, 16202938,
     16513219, 16826940, 17144110, 17464740, 17788842, 18116424,
     18447499, 18782077, 19120168, 19461783, 19806932, 20155625,
     20507874, 20863687, 21223076, 21586050, 21952620, 22322796,
     22696587, 23074005, 23455058, 23839757, 24228112, 24620133,
     25015828, 25415209, 25818285, 26225066, 26635560, 27049779,
     27467731, 27889426, 28314874, 28744084, 29177065, 29613827,
     30054379, 30498731, 30946892, 31398871, 31854678, 32314321,
     32777810, 33245154, 33716362, 34191442, 34670406, 35153260,
     35640014, 36130678, 36625260, 37123768, 37626212, 38132601,
     38642943, 39157248, 39675523, 40197778, 40724021, 41254261,
     41788507, 42326767, 42869050, 43415364, 43965717, 44520119,
     45078578, 45641102, 46207700, 46778380, 47353150, 47932018,
     48514994, 49102085, 49693300, 50288646, 50888132, 51491767,
     52099557, 52711513, 53327640, 53947949, 54572446, 55201140,
     55834039, 56471151, 57112483, 57758044, 58407842, 59061884,
     59720179, 60382734, 61049557, 61720656, 62396039, 63075714,
     63759687, 64447968, 65140564, 65837482, 66538730, 67244316,
     67954247, 68668531, 69387176, 70110189, 70837578, 71569350,
     72305513, 73046074, 73791041, 74540421, 75294222, 76052450,
     76815115, 77582222, 78353779, 79129794, 79910274, 80695226,
     81484657, 82278575, 83076988, 83879901, 84687323, 85499261,
     86315721, 87136712, 87962240, 88792312, 89626935, 90466117,
     91309865, 92158186, 93011086, 93868573, 94730654, 95597335,
     96468625, 97344529, 98225055, 99110210, 100000000
  >>

\* calculateRelativeLuminanceComponent1: relativeRgb <= 0.03928 is
\* rgbValue * 100000 <= 3928 * 255, and relativeRgb / 12.92 in units of 10^-8
\* is rgbValue * 10^9 / 32946, computed in two steps to stay within 32 bits
calculateRelativeLuminanceComponent1(rgbValue) ==
    IF IsNaN(rgbValue) THEN NaN
    ELSE IF rgbValue * 100000 <= 3928 * 255
    THEN LET x == rgbValue * 100000000
         IN  10 * (x \div 32946) + (10 * (x % 32946) + 16473) \div 32946
    ELSE GammaTable[rgbValue - 10]

\* calculateRelativeLuminanceComponent2 with the green weight mistyped
\* (0.7512 for 0.7152)
Component2_GreenWeightTypo(input) ==
    LET r == calculateRelativeLuminanceComponent1(input[1])
        g == calculateRelativeLuminanceComponent1(input[2])
        b == calculateRelativeLuminanceComponent1(input[3])
    IN  IF IsNaN(r) \/ IsNaN(g) \/ IsNaN(b) THEN NaN
        ELSE 2126 * (r \div 10000) + 7512 * (g \div 10000) + 722 * (b \div 10000)
             + (2126 * (r % 10000) + 7512 * (g % 10000) + 722 * (b % 10000)
                + 5000) \div 10000

\* calculateRelativeLuminanceComponent2: the weights are counted in units of
\* 10^-4 and each product is split at 10^4 to stay within 32 bits
calculateRelativeLuminanceComponent2(input) ==
    LET r == calculateRelativeLuminanceComponent1(input[1])
        g == calculateRelativeLuminanceComponent1(input[2])
        b == calculateRelativeLuminanceComponent1(input[3])
    IN  IF IsNaN(r) \/ IsNaN(g) \/ IsNaN(b) THEN NaN
        ELSE 2126 * (r \div 10000) + 7152 * (g \div 10000) + 722 * (b \div 10000)
             + (2126 * (r % 10000) + 7152 * (g % 10000) + 722 * (b % 10000)
                + 5000) \div 10000

\* calculateRelativeLuminance without the length test on arrays: a missing
\* element reads as undefined and the luminance is NaN
Luminance_AnyArray(input) ==
    IF input.kind = "array"
    THEN Return(IF Len(input.val) >= 3
                THEN calculateRelativeLuminanceComponent2(input.val) ELSE NaN)
    ELSE IF input.kind = "string"
    THEN LET rgb == convertHexToRgb(input.val)
         IN  IF rgb.threw THEN rgb
             ELSE Return(calculateRelativeLuminanceComponent2(rgb.value))
    ELSE Throw(InvalidTypeMessage)

\* calculateRelativeLuminance
calculateRelativeLuminance(input) ==
    IF input.kind = "array" /\ Len(input.val) = 3
    THEN Return(calculateRelativeLuminanceComponent2(input.val))
    ELSE IF input.kind = "string"
    THEN LET rgb == convertHexToRgb(input.val)
         IN  IF rgb.threw THEN rgb
             ELSE Return(calculateRelativeLuminanceComponent2(rgb.value))
    ELSE Throw(InvalidTypeMessage)

\* Math.round((hi / lo) * 100), hi and lo in the same unit, lo > 0: two
\* decimal digits by long division, then round half up
RoundHundredths(hi, lo) ==
    LET q  == hi \div lo
        r0 == hi % lo
        d1 == (10 * r0) \div lo
        r1 == (10 * r0) % lo
        d2 == (10 * r1) \div lo
        r2 == (10 * r1) % lo
    IN  100 * q + 10 * d1 + d2 + (IF 2 * r2 >= lo THEN 1 ELSE 0)

\* Math.round(((hi + 0.05) / (lo + 0.05)) * 100) / 100, in units of 0.01
RoundedRatio(hi, lo) ==
    IF IsNaN(hi) \/ IsNaN(lo) THEN NaN
    ELSE RoundHundredths(hi + 5000000, lo + 5000000)

\* colorContrastRatioCalculator dividing foreground by background whichever
\* is lighter
Calculator_NoSwap(foregroundColor, backgroundColor) ==
    LET fg == calculateRelativeLuminance(foregroundColor)
    IN  IF fg.threw THEN fg
        ELSE LET bg == calculateRelativeLuminance(backgroundColor)
             IN  IF bg.threw THEN bg
                 ELSE Return(RoundedRatio(fg.value, bg.value))

\* colorContrastRatioCalculator with the offset of the else branch's divisor
\* mistyped (0.5 for 0.05)
Calculator_ElseOffsetTypo(foregroundColor, backgroundColor) ==
    LET fg == calculateRelativeLuminance(foregroundColor)
    IN  IF fg.threw THEN fg
        ELSE LET bg == calculateRelativeLuminance(backgroundColor)
             IN  IF bg.threw THEN bg
                 ELSE IF Less(bg.value, fg.value)
                 THEN Return(RoundedRatio(fg.value, bg.value))
                 ELSE Return(RoundHundredths(bg.value + 5000000,
                                             fg.value + 50000000))

\* colorContrastRatioCalculator
colorContrastRatioCalculator(foregroundColor, backgroundColor) ==
    LET fg == calculateRelativeLuminance(foregroundColor)
    IN  IF fg.threw THEN fg
        ELSE LET bg == calculateRelativeLuminance(backgroundColor)
             IN  IF bg.threw THEN bg
                 ELSE IF Less(bg.value, fg.value)
                 THEN Return(RoundedRatio(fg.value, bg.value))
                 ELSE Return(RoundedRatio(bg.value, fg.value))

---------------------------------------------------------------------------
(* The widget. *)

Rep(c, n) == [i \in 1..n |-> c]
Hash(s) == <<"#">> \o s

\* useSyncedState defaults
DefaultForeground == <<"#", "8", "9", "8", "9", "8", "9">>
DefaultBackground == <<"#", "4", "5", "4", "5", "4", "5">>
Null == [kind |-> "null", val |-> <<>>]

NoArg == [kind |-> "none", val |-> <<>>]
NoResult == [pending |-> TRUE]

\* texts the user leaves in a colour field (e.characters)
TypedTexts ==
    { <<" ">> \o Hash(Rep("0", 6)) \o <<" ">>,
      Rep("z", 6), Rep("F", 7), Rep("f", 4),
      <<"f", "f", "f", "#", "f", "f", "f">>,
      <<>> }

\* texts the user leaves in a label field
LabelTexts == { <<"T">>, <<" ", "T", " ">> }

PropertyNames == {"darkMode", "showLabels", "horizontalLayout"}

\* the test both text handlers make of their input
isValidHex(input) == validateHexString(sanitise(input))

Init ==
    /\ darkMode = FALSE
    /\ showLabels = FALSE
    /\ horizontalLayout = FALSE
    /\ foreground = DefaultForeground
    /\ background = DefaultBackground
    /\ foregroundLabel = Null
    /\ backgroundLabel = Null
    /\ ratio = 0
    /\ notifyCount = 0
    /\ renderPending = TRUE
    /\ effectRan = FALSE
    /\ setRatioCalls = 0
    /\ op = "none"
    /\ argA = NoArg
    /\ argB = NoArg
    /\ result = NoResult
    /\ phase = "idle"

\* validateForegroundInput committing the input before it is tested
ForegroundInput_CommitFirst(input) ==
    /\ foreground' = input
    /\ renderPending' = TRUE
    /\ effectRan' = FALSE
    /\ setRatioCalls' = 0
    /\ IF isValidHex(input)
       THEN notifyCount' = notifyCount
       ELSE notifyCount < MaxNotify /\ notifyCount' = notifyCount + 1
    /\ UNCHANGED <<darkMode, showLabels, horizontalLayout, background,
                   foregroundLabel, backgroundLabel, ratio>>

\* validateForegroundInput
validateForegroundInput(input) ==
    IF isValidHex(input)
    THEN /\ foreground' = input
         /\ renderPending' = TRUE
         /\ effectRan' = FALSE
         /\ setRatioCalls' = 0
         /\ UNCHANGED <<darkMode, showLabels, horizontalLayout, background,
                        foregroundLabel, backgroundLabel, ratio, notifyCount>>
    ELSE /\ notifyCount < MaxNotify
         /\ notifyCount' = notifyCount + 1
         /\ UNCHANGED <<darkMode, showLabels, horizontalLayout, foreground,
                        background, foregroundLabel, backgroundLabel, ratio,
                        renderPending, effectRan, setRatioCalls>>

\* validateBackgroundInput
validateBackgroundInput(input) ==
    IF isValidHex(input)
    THEN /\ background' = input
         /\ renderPending' = TRUE
         /\ effectRan' = FALSE
         /\ setRatioCalls' = 0
         /\ UNCHANGED <<darkMode, showLabels, horizontalLayout, foreground,
                        foregroundLabel, backgroundLabel, ratio, notifyCount>>
    ELSE /\ notifyCount < MaxNotify
         /\ notifyCount' = notifyCount + 1
         /\ UNCHANGED <<darkMode, showLabels, horizontalLayout, foreground,
                        background, foregroundLabel, backgroundLabel, ratio,
                        renderPending, effectRan, setRatioCalls>>

\* onTextEditEnd of the foreground colour field
ForegroundTextEditEnd ==
    /\ phase = "idle"
    /\ \E characters \in TypedTexts : validateForegroundInput(trim(characters))
    /\ UNCHANGED calcVars

\* onTextEditEnd of the background colour field
BackgroundTextEditEnd ==
    /\ phase = "idle"
    /\ \E characters \in TypedTexts : validateBackgroundInput(trim(characters))
    /\ UNCHANGED calcVars

\* onTextEditEnd of the foreground label field, rendered when showLabels
ForegroundLabelEditEnd ==
    /\ phase = "idle"
    /\ showLabels
    /\ \E characters \in LabelTexts : foregroundLabel' = Str(trim(characters))
    /\ renderPending' = TRUE
    /\ UNCHANGED <<darkMode, showLabels, horizontalLayout, foreground, background,
                   backgroundLabel, ratio, notifyCount, effectRan, setRatioCalls>>
    /\ UNCHANGED calcVars

\* onTextEditEnd of the background label field, rendered when showLabels
BackgroundLabelEditEnd ==
    /\ phase = "idle"
    /\ showLabels
    /\ \E characters \in LabelTexts : backgroundLabel' = Str(trim(characters))
    /\ renderPending' = TRUE
    /\ UNCHANGED <<darkMode, showLabels, horizontalLayout, foreground, background,
                   foregroundLabel, ratio, notifyCount, effectRan, setRatioCalls>>
    /\ UNCHANGED calcVars

\* the usePropertyMenu callback; the host passes a registered propertyName
PropertyMenu ==
    /\ phase = "idle"
    /\ \E propertyName \in PropertyNames :
         /\ darkMode' = IF propertyName = "darkMode" THEN ~darkMode ELSE darkMode
         /\ showLabels' =
                IF propertyName = "showLabels" THEN ~showLabels ELSE showLabels
         /\ horizontalLayout' =
                IF propertyName = "horizontalLayout"
                THEN ~horizontalLayout ELSE horizontalLayout
    /\ renderPending' = TRUE
    /\ UNCHANGED <<foreground, background, foregroundLabel, backgroundLabel,
                   ratio, notifyCount, effectRan, setRatioCalls>>
    /\ UNCHANGED calcVars

\* the useEffect callback, run after a render; every set of a synced state
\* asks for another render
useEffect ==
    /\ phase = "idle"
    /\ renderPending
    /\ LET computed == colorContrastRatioCalculator(Str(foreground), Str(background))
       IN  IF computed.threw
           THEN /\ renderPending' = FALSE
                /\ UNCHANGED <<ratio, effectRan, setRatioCalls>>
           ELSE IF StrictNotEqual(computed.value, ratio)
           THEN /\ ratio' = computed.value
                /\ renderPending' = TRUE
                /\ effectRan' = TRUE
                /\ setRatioCalls' =
                       IF setRatioCalls < MaxSetRatioCalls
                       THEN setRatioCalls + 1 ELSE setRatioCalls
           ELSE /\ renderPending' = FALSE
                /\ effectRan' = TRUE
                /\ UNCHANGED <<ratio, setRatioCalls>>
    /\ UNCHANGED <<darkMode, showLabels, horizontalLayout, foreground, background,
                   foregroundLabel, backgroundLabel, notifyCount>>
    /\ UNCHANGED calcVars

Next ==
    \/ ForegroundTextEditEnd
    \/ BackgroundTextEditEnd
    \/ ForegroundLabelEditEnd
    \/ BackgroundLabelEditEnd
    \/ PropertyMenu
    \/ useEffect

Spec == Init /\ [][Next]_vars

---------------------------------------------------------------------------
(* The colour math on its own: one call of one function per behaviour. *)

Alphabet == {"#", "F", "z", "0"}

StringsUpTo(n) == UNION { [1..k -> Alphabet] : k \in 0..n }

NamedStrings ==
    { DefaultForeground, DefaultBackground,
      Hash(Rep("F", 6)), Hash(Rep("0", 6)), Rep("f", 6), Rep("0", 6),
      Rep("z", 6), Rep("f", 7), Rep("f", 4),
      <<"f", "f", "f", "#", "f", "f", "f">>,
      <<"f", "z", " ", "f", "0", "x">> }

ArrayChannels == {0, 10, 11, 69, 137, 255}

ArraysUpTo(n) == UNION { [1..k -> ArrayChannels] : k \in 0..n }

StringInputs == { Str(s) : s \in StringsUpTo(MaxLen) \cup NamedStrings }

LuminanceInputs ==
    StringInputs \cup { Arr(a) : a \in ArraysUpTo(MaxArrayLen) }
        \cup {NotStringNorArray}

RatioInputs ==
    { Str(s) : s \in NamedStrings } \cup { Arr(a) : a \in [1..3 -> ArrayChannels] }
        \cup { Arr(<<0, 0>>), Arr(<<255, 255, 255, 255>>), NotStringNorArray }

CalcInit ==
    /\ darkMode = FALSE
    /\ showLabels = FALSE
    /\ horizontalLayout = FALSE
    /\ foreground = DefaultForeground
    /\ background = DefaultBackground
    /\ foregroundLabel = Null
    /\ backgroundLabel = Null
    /\ ratio = 0
    /\ notifyCount = 0
    /\ renderPending = TRUE
    /\ effectRan = FALSE
    /\ setRatioCalls = 0
    /\ phase = "call"
    /\ result = NoResult
    /\ \/ op = "isValidHex" /\ argA \in StringInputs /\ argB = NoArg
       \/ op = "convertHexToRgb" /\ argA \in StringInputs /\ argB = NoArg
       \/ op = "calculateRelativeLuminance" /\ argA \in LuminanceInputs
            /\ argB = NoArg
       \/ op = "colorContrastRatioCalculator" /\ argA \in RatioInputs
            /\ argB \in RatioInputs

CallIsValidHex ==
    /\ phase = "call"
    /\ op = "isValidHex"
    /\ result' = Return(isValidHex(argA.val))
    /\ phase' = "done"
    /\ UNCHANGED <<op, argA, argB>>
    /\ UNCHANGED widgetVars

CallConvertHexToRgb ==
    /\ phase = "call"
    /\ op = "convertHexToRgb"
    /\ result' = convertHexToRgb(argA.val)
    /\ phase' = "done"
    /\ UNCHANGED <<op, argA, argB>>
    /\ UNCHANGED widgetVars

CallCalculateRelativeLuminance ==
    /\ phase = "call"
    /\ op = "calculateRelativeLuminance"
    /\ result' = calculateRelativeLuminance(argA)
    /\ phase' = "done"
    /\ UNCHANGED <<op, argA, argB>>
    /\ UNCHANGED widgetVars

CallColorContrastRatioCalculator ==
    /\ phase = "call"
    /\ op = "colorContrastRatioCalculator"
    /\ result' = colorContrastRatioCalculator(argA, argB)
    /\ phase' = "done"
    /\ UNCHANGED <<op, argA, argB>>
    /\ UNCHANGED widgetVars

CalcNext ==
    \/ CallIsValidHex
    \/ CallConvertHexToRgb
    \/ CallCalculateRelativeLuminance
    \/ CallColorContrastRatioCalculator

CalcSpec == CalcInit /\ [][CalcNext]_vars

---------------------------------------------------------------------------
(* Properties. *)

Done(name) == phase = "done" /\ op = name

\* the data model's ColorInput: an optional leading '#' and six hex digits,
\* or three channels in 0 .. 255
stripLeadingHash(s) == IF s # <<>> /\ Head(s) = "#" THEN Tail(s) ELSE s

ValidColor(x) ==
    \/ /\ x.kind = "string"
       /\ Len(stripLeadingHash(x.val)) = 6
       /\ \A i \in 1..6 : IsHexDigit(stripLeadingHash(x.val)[i])
    \/ /\ x.kind = "array"
       /\ Len(x.val) = 3
       /\ \A i \in 1..3 : x.val[i] \in 0..255

SameInput(x, y) == x.kind = y.kind /\ x.val = y.val

White == Str(Hash(Rep("F", 6)))
Black == Str(Hash(Rep("0", 6)))

\* C1: isValidHex returns true exactly when the input, its '#' removed, has
\* exactly 6 characters.
C1_ValidIffSixCharacters ==
    Done("isValidHex") => (result.value <=> Len(sanitise(argA.val)) = 6)

\* C2: convertHexToRgb throws "Invalid HEX input" for every input that passes
\* validation with a character that is no hex digit among its first six, and
\* whenever it returns, the three channels are integers in 0 .. 255.
C2_NonHexDigitsThrow ==
    Done("convertHexToRgb") =>
        LET s == sanitise(argA.val)
        IN  /\ (validateHexString(s) /\ \E i \in 1..6 : ~IsHexDigit(s[i]))
                   => (result.threw /\ result.error = InvalidHexMessage)
            /\ ~result.threw => \A i \in 1..3 : result.value[i] \in 0..255

\* C3: for valid colours A and B, colorContrastRatioCalculator(A, B) returns
\* the number colorContrastRatioCalculator(B, A) returns.
C3_Symmetric ==
    (Done("colorContrastRatioCalculator") /\ ValidColor(argA) /\ ValidColor(argB))
        => /\ ~result.threw
           /\ LET swapped == colorContrastRatioCalculator(argB, argA)
              IN  ~swapped.threw /\ ~StrictNotEqual(result.value, swapped.value)

C3_Witness ==
    /\ Done("colorContrastRatioCalculator")
    /\ SameInput(argA, Str(DefaultForeground))
    /\ SameInput(argB, Arr(<<69, 69, 69>>))
    /\ ~result.threw
    /\ result.value = 274

\* C4: for valid colours A and B the ratio lies in [1.00, 21.00], and white
\* against black gives 21.00, as hex strings and as RGB triples.
C4_Bounds ==
    Done("colorContrastRatioCalculator") =>
        /\ (ValidColor(argA) /\ ValidColor(argB))
               => (~result.threw /\ LessEq(100, result.value)
                   /\ LessEq(result.value, 2100))
        /\ (SameInput(argA, White) /\ SameInput(argB, Black))
               => (~result.threw /\ result.value = 2100)
        /\ (SameInput(argA, Arr(<<255, 255, 255>>))
            /\ SameInput(argB, Arr(<<0, 0, 0>>)))
               => (~result.threw /\ result.value = 2100)

C4_Witness ==
    /\ Done("colorContrastRatioCalculator")
    /\ SameInput(argA, White)
    /\ SameInput(argB, Black)
    /\ ~result.threw
    /\ result.value = 2100

\* C5: for every valid colour A, colorContrastRatioCalculator(A, A) is 1.00.
C5_SelfContrast ==
    (Done("colorContrastRatioCalculator") /\ ValidColor(argA)
     /\ SameInput(argA, argB))
        => (~result.threw /\ result.value = 100)

C5_Witness ==
    /\ Done("colorContrastRatioCalculator")
    /\ SameInput(argA, Arr(<<137, 69, 11>>))
    /\ SameInput(argB, Arr(<<137, 69, 11>>))
    /\ ~result.threw
    /\ result.value = 100

AcceptedTexts == { trim(t) : t \in { u \in TypedTexts : isValidHex(trim(u)) } }

\* C6: a colour edit whose input fails validation emits the notification and
\* leaves colours, labels, toggles and ratio as they were; one whose input
\* passes replaces that colour by the input and leaves the other colour; a
\* notification comes with no change of the persisted state and a colour
\* changes only to an input that passes; so each stored colour is its default
\* or an accepted input.
C6_RejectedEditChangesNothing ==
    /\ [][ /\ \A t \in TypedTexts :
                /\ validateForegroundInput(trim(t)) =>
                       IF isValidHex(trim(t))
                       THEN foreground' = trim(t) /\ background' = background
                       ELSE /\ notifyCount' = notifyCount + 1
                            /\ UNCHANGED <<foreground, background, foregroundLabel,
                                           backgroundLabel, darkMode, showLabels,
                                           horizontalLayout, ratio>>
                /\ validateBackgroundInput(trim(t)) =>
                       IF isValidHex(trim(t))
                       THEN background' = trim(t) /\ foreground' = foreground
                       ELSE /\ notifyCount' = notifyCount + 1
                            /\ UNCHANGED <<foreground, background, foregroundLabel,
                                           backgroundLabel, darkMode, showLabels,
                                           horizontalLayout, ratio>>
           /\ notifyCount' # notifyCount =>
                  UNCHANGED <<foreground, background, foregroundLabel,
                              backgroundLabel, darkMode, showLabels,
                              horizontalLayout, ratio>>
           /\ foreground' # foreground =>
                  (foreground' \in AcceptedTexts /\ background' = background)
           /\ background' # background =>
                  (background' \in AcceptedTexts /\ foreground' = foreground)
         ]_vars
    /\ [](/\ foreground \in {DefaultForeground} \cup AcceptedTexts
          /\ background \in {DefaultBackground} \cup AcceptedTexts)

C6_Witness ==
    /\ notifyCount = 1
    /\ foreground = Rep("z", 6)
    /\ background = DefaultBackground

\* C7: once the effect has run for the current colours, the persisted ratio
\* is a number in [1.00, 21.00], never NaN.
C7_RatioIsNumberInRange ==
    effectRan => (~IsNaN(ratio) /\ 100 <= ratio /\ ratio <= 2100)

\* C8: calculateRelativeLuminance throws "Input value must be a string"
\* exactly when its input is neither an array of length 3 nor a string; an
\* array of length 3 is used as the triple, a string goes through
\* convertHexToRgb; colorContrastRatioCalculator throws that same error and
\* returns nothing when either luminance call throws it.
C8_InvalidInputType ==
    /\ Done("calculateRelativeLuminance") =>
        /\ (result.threw /\ result.error = InvalidTypeMessage)
               <=> (~(argA.kind = "array" /\ Len(argA.val) = 3)
                    /\ argA.kind # "string")
        /\ (argA.kind = "array" /\ Len(argA.val) = 3)
               => (~result.threw
                   /\ result.value = calculateRelativeLuminanceComponent2(argA.val))
        /\ argA.kind = "string" =>
               LET rgb == convertHexToRgb(argA.val)
               IN  IF rgb.threw
                   THEN result.threw /\ result.error = InvalidHexMessage
                   ELSE ~result.threw
                        /\ result.value =
                               calculateRelativeLuminanceComponent2(rgb.value)
    /\ Done("colorContrastRatioCalculator") =>
        LET wrongType(x) == ~(x.kind = "array" /\ Len(x.val) = 3)
                            /\ x.kind # "string"
            hexThrows(x) == x.kind = "string" /\ convertHexToRgb(x.val).threw
        IN  /\ wrongType(argA) => (result.threw /\ result.error = InvalidTypeMessage)
            /\ (~wrongType(argA) /\ ~hexThrows(argA) /\ wrongType(argB))
                   => (result.threw /\ result.error = InvalidTypeMessage)
            /\ (~wrongType(argA) /\ ~wrongType(argB))
                   => ~(result.threw /\ result.error = InvalidTypeMessage)

C8_Witness ==
    /\ Done("calculateRelativeLuminance")
    /\ SameInput(argA, Arr(<<0, 0>>))
    /\ result.threw
    /\ result.error = InvalidTypeMessage

\* C9: validation and conversion behave as if only a leading '#' were
\* removed: a '#' elsewhere stays and counts toward the length.
C9_OnlyLeadingHashStripped ==
    LET leadingOnly == validateHexString(toLowerCase(stripLeadingHash(argA.val)))
    IN  /\ Done("isValidHex") => (result.value <=> leadingOnly)
        /\ Done("convertHexToRgb") => (result.threw <=> ~leadingOnly)

\* C10: setRatio is called at most once per colour change, and when no
\* render is pending the persisted ratio equals the computed one.
C10_EffectConverges ==
    /\ setRatioCalls <= 1
    /\ ~renderPending =>
           LET computed == colorContrastRatioCalculator(Str(foreground),
                                                         Str(background))
           IN  ~computed.threw /\ ~StrictNotEqual(computed.value, ratio)

====
